---- MODULE Spec2Model ----
(***************************************************************************)
(* Model of src/parse_csv.py: a script that opens a CSV file, reads it     *)
(* through csv.DictReader, tallies the rows by their 'group' field, and    *)
(* prints the tally sorted by key.                                         *)
(*                                                                         *)
(* Text is modelled as sequences of code points, so that Python's string   *)
(* order, the f-string of line 16 and str(None) are computed, not assumed. *)
(* A line of the file is modelled after csv.reader has split it: either a  *)
(* list of fields or a line on which csv.reader raises csv.Error.          *)
(***************************************************************************)
EXTENDS Integers, Sequences, FiniteSets

\* ---------------------------------------------------------------- bounds
\* Largest number of lines after the header line.
MaxRows == 3

\* The group values of the files: "", "A", "AB", "B".
Names == {<<>>, <<65>>, <<65, 66>>, <<66>>}

\* ------------------------------------------------------ Python values
PyStr(s) == [tag |-> "str", s |-> s]
PyNone == [tag |-> "NoneType", s |-> <<>>]
PyList(l) == [tag |-> "list", s |-> <<>>, l |-> l]

\* 'group', the key of line 8.
GroupField == <<103, 114, 111, 117, 112>>
\* 'id', some other column of the file.
OtherField == <<105, 100>>
\* "X", the value of every field that is not in the group column.
OtherValue == <<88>>

\* 'Groups found:' (line 14).
HeaderText == <<71, 114, 111, 117, 112, 115, 32, 102, 111, 117, 110, 100, 58>>
\* The literal parts of the f-string of line 16: '- ', ': ', ' fields'.
LinePrefix == <<45, 32>>
LineSep == <<58, 32>>
LineSuffix == <<32, 102, 105, 101, 108, 100, 115>>
\* str(None)
NoneText == <<78, 111, 110, 101>>

\* ---------------------------------------------------------- the inputs
RECURSIVE SeqsUpTo(_, _)
SeqsUpTo(S, n) ==
    IF n = 0 THEN {<<>>}
    ELSE LET shorter == SeqsUpTo(S, n - 1)
         IN  shorter \cup {Append(s, x) : s \in {t \in shorter : Len(t) = n - 1}, x \in S}

ParsedLine(fs) == [bad |-> FALSE, fields |-> fs]
BadLine == [bad |-> TRUE, fields |-> <<>>]

Headers == {<<>>, <<GroupField>>, <<OtherField, GroupField>>, <<OtherField>>}

\* The values a field in column j may take under header h.
FieldValues(h, j) ==
    IF j <= Len(h) /\ h[j] = GroupField THEN Names ELSE {OtherValue}

\* The data lines of a file with header h: a line csv.reader rejects, or a
\* line of 0 .. Len(h)+1 fields (blank, short, full and long rows).
DataLines(h) ==
    {BadLine} \cup
    UNION { { ParsedLine(fs) :
                fs \in { f \in [1..n -> Names \cup {OtherValue}] :
                           \A j \in 1..n : f[j] \in FieldValues(h, j) } }
            : n \in 0..(Len(h) + 1) }

Files ==
    {<<>>, <<BadLine>>} \cup
    UNION { { <<ParsedLine(h)>> \o rows : rows \in SeqsUpTo(DataLines(h), MaxRows) }
            : h \in Headers }

NoRun == [ran |-> FALSE, pc |-> "", err |-> "", out |-> <<>>]

VARIABLES
    readable,    \* whether open() of line 5 succeeds
    file,        \* the lines of the file, as csv.reader yields them
    pc,          \* position in the script
    err,         \* the exception that ended the run, "" if none
    fopen,       \* whether the file object f is open
    fieldnames,  \* DictReader._fieldnames (<<>> while line_num = 0)
    line_num,    \* reader.line_num: lines consumed from f
    groups,      \* the dict of line 3, in insertion order: <<[k, v], ...>>
    items,       \* the rest of the list sorted(groups.items()) being printed
    out,         \* standard output, one entry per print call
    prev         \* how the previous run of the script on this file ended

vars == <<readable, file, pc, err, fopen, fieldnames, line_num, groups, items, out, prev>>

\* ------------------------------------------------------ csv.DictReader
\* dict(zip(fieldnames, row)), then restkey / restval (DictReader.__next__).
DictRow(fn, row) ==
    LET lf == Len(fn)
        lr == Len(row)
        keys == {PyStr(fn[j]) : j \in 1..lf} \cup (IF lf < lr THEN {PyNone} ELSE {})
        Last(S) == CHOOSE j \in S : \A m \in S : m <= j
    IN  [k \in keys |->
           IF k = PyNone THEN PyList(SubSeq(row, lf + 1, lr))
           ELSE LET idx == {j \in 1..lf : fn[j] = k.s}
                IN  IF \E j \in idx : j > lr THEN PyNone
                    ELSE PyStr(row[Last(idx)])]

\* The 'while row == []' loop of DictReader.__next__, started after p lines.
RECURSIVE SkipBlank(_, _)
SkipBlank(fn, p) ==
    IF p >= Len(file) THEN [kind |-> "stop", fieldnames |-> fn, line_num |-> p]
    ELSE IF file[p + 1].bad THEN [kind |-> "error", fieldnames |-> fn, line_num |-> p + 1]
    ELSE IF file[p + 1].fields = <<>> THEN SkipBlank(fn, p + 1)
    ELSE [kind |-> "row", fieldnames |-> fn, line_num |-> p + 1,
          row |-> DictRow(fn, file[p + 1].fields)]

\* A reader that takes the first line for a data row of a file whose only
\* column is 'group' (DictReader(f, fieldnames=['group'])).
ReaderNextNoHeader(fn, ln) == SkipBlank(<<GroupField>>, ln)

\* DictReader.__next__: reads the header on the first call, then the next
\* row that is not blank.
ReaderNext(fn, ln) ==
    IF ln # 0 THEN SkipBlank(fn, ln)
    ELSE IF file = <<>> THEN [kind |-> "stop", fieldnames |-> fn, line_num |-> 0]
    ELSE IF file[1].bad THEN [kind |-> "error", fieldnames |-> fn, line_num |-> 1]
    ELSE SkipBlank(file[1].fields, 1)

\* row.get('group') in place of row['group'].
RowGetOrNone(row) ==
    IF PyStr(GroupField) \in DOMAIN row
    THEN [ok |-> TRUE, val |-> row[PyStr(GroupField)]]
    ELSE [ok |-> TRUE, val |-> PyNone]

\* row['group'] (line 8): KeyError when the key is absent.
RowGet(row) ==
    IF PyStr(GroupField) \in DOMAIN row
    THEN [ok |-> TRUE, val |-> row[PyStr(GroupField)]]
    ELSE [ok |-> FALSE, val |-> PyNone]

\* ------------------------------------------------------------ the tally
HasKey(g, k) == \E i \in 1..Len(g) : g[i].k = k

\* A tally that stores 1 on every row.
TallyNoIncrement(g, k) ==
    IF HasKey(g, k)
    THEN [i \in 1..Len(g) |-> IF g[i].k = k THEN [k |-> k, v |-> 1] ELSE g[i]]
    ELSE Append(g, [k |-> k, v |-> 1])

\* A tally that enters a new key with the count 0.
TallyFromZero(g, k) ==
    IF HasKey(g, k)
    THEN [i \in 1..Len(g) |-> IF g[i].k = k THEN [k |-> k, v |-> g[i].v + 1] ELSE g[i]]
    ELSE Append(g, [k |-> k, v |-> 0])

\* A tally that skips rows whose group is the empty string.
TallySkipEmpty(g, k) ==
    IF k = PyStr(<<>>) THEN g
    ELSE IF HasKey(g, k)
    THEN [i \in 1..Len(g) |-> IF g[i].k = k THEN [k |-> k, v |-> g[i].v + 1] ELSE g[i]]
    ELSE Append(g, [k |-> k, v |-> 1])

\* Lines 9-12.
Tally(g, k) ==
    IF HasKey(g, k)
    THEN [i \in 1..Len(g) |-> IF g[i].k = k THEN [k |-> k, v |-> g[i].v + 1] ELSE g[i]]
    ELSE Append(g, [k |-> k, v |-> 1])

\* ---------------------------------------------------------------- sorted
\* str.__lt__: order by code point, a proper prefix first.
RECURSIVE StrLt(_, _)
StrLt(a, b) ==
    IF b = <<>> THEN FALSE
    ELSE IF a = <<>> THEN TRUE
    ELSE IF a[1] # b[1] THEN a[1] < b[1]
    ELSE StrLt(Tail(a), Tail(b))

\* (k1, v1) < (k2, v2) on tuples: the first elements that differ decide;
\* None against a str raises TypeError.
ItemLt(x, y) ==
    IF x.k = y.k THEN [ok |-> TRUE, lt |-> x.v < y.v]
    ELSE IF x.k.tag = "str" /\ y.k.tag = "str" THEN [ok |-> TRUE, lt |-> StrLt(x.k.s, y.k.s)]
    ELSE [ok |-> FALSE, lt |-> FALSE]

RECURSIVE InsertSorted(_, _)
InsertSorted(x, s) ==
    IF s = <<>> THEN [ok |-> TRUE, val |-> <<x>>]
    ELSE LET c == ItemLt(x, s[1])
         IN  IF ~c.ok THEN [ok |-> FALSE, val |-> <<>>]
             ELSE IF c.lt THEN [ok |-> TRUE, val |-> <<x>> \o s]
             ELSE LET r == InsertSorted(x, Tail(s))
                  IN  IF r.ok THEN [ok |-> TRUE, val |-> <<s[1]>> \o r.val] ELSE r

RECURSIVE SortFrom(_, _)
SortFrom(done, rest) ==
    IF rest = <<>> THEN [ok |-> TRUE, val |-> done]
    ELSE LET r == InsertSorted(Head(rest), done)
         IN  IF r.ok THEN SortFrom(r.val, Tail(rest)) ELSE r

\* groups.items() as it is, in insertion order.
Unsorted(g) == [ok |-> TRUE, val |-> g]

\* sorted(groups.items()) (line 15).
Sorted(g) == SortFrom(<<>>, g)

\* ------------------------------------------------------------ formatting
RECURSIVE Digits(_)
Digits(n) == IF n < 10 THEN <<48 + n>> ELSE Digits(n \div 10) \o <<48 + (n % 10)>>

\* format(group) inside the f-string.
KeyText(k) == IF k.tag = "str" THEN k.s ELSE NoneText

\* f'- {group}: {count} fields' (line 16).
FormatLine(it) == LinePrefix \o KeyText(it.k) \o LineSep \o Digits(it.v) \o LineSuffix

\* ----------------------------------------------------------------- Init
Init ==
    /\ readable \in BOOLEAN
    /\ file \in Files
    /\ (~readable => file = <<>>)
    /\ pc = "start"
    /\ err = ""
    /\ fopen = FALSE
    /\ fieldnames = <<>>
    /\ line_num = 0
    /\ groups = <<>>
    /\ items = <<>>
    /\ out = <<>>
    /\ prev = NoRun

\* What the with statement leaves of f when the block is left without it.
LeftOpen == fopen

\* f after the with block of line 5 is left, normally or by an exception.
WithExit == FALSE

\* A start that keeps an earlier tally.
StartNoReset ==
    /\ pc = "start"
    /\ pc' = "open"
    /\ UNCHANGED <<readable, file, err, fopen, fieldnames, line_num, groups, items, out, prev>>

\* Line 3: groups = {}.
Start ==
    /\ pc = "start"
    /\ groups' = <<>>
    /\ pc' = "open"
    /\ UNCHANGED <<readable, file, err, fopen, fieldnames, line_num, items, out, prev>>

\* Lines 5-6: open the file, build the reader (which reads nothing yet).
Open ==
    /\ pc = "open"
    /\ IF readable
       THEN /\ fopen' = TRUE
            /\ pc' = "loop"
            /\ err' = err
       ELSE /\ fopen' = fopen
            /\ pc' = "error"
            /\ err' = "FileNotFoundError"
    /\ fieldnames' = <<>>
    /\ line_num' = 0
    /\ UNCHANGED <<readable, file, groups, items, out, prev>>

\* Lines 7-12: one turn of the for loop, from next(reader) to the tally;
\* leaving the loop, normally or by an exception, leaves the with block.
Iterate ==
    /\ pc = "loop"
    /\ LET r == ReaderNext(fieldnames, line_num)
       IN  /\ fieldnames' = r.fieldnames
           /\ line_num' = r.line_num
           /\ CASE r.kind = "stop" ->
                     /\ fopen' = WithExit
                     /\ pc' = "print_header"
                     /\ UNCHANGED <<err, groups>>
                [] r.kind = "error" ->
                     /\ fopen' = WithExit
                     /\ pc' = "error"
                     /\ err' = "csv.Error"
                     /\ UNCHANGED groups
                [] r.kind = "row" ->
                     LET g == RowGet(r.row)
                     IN  IF g.ok
                         THEN /\ groups' = Tally(groups, g.val)
                              /\ UNCHANGED <<pc, err, fopen>>
                         ELSE /\ fopen' = WithExit
                              /\ pc' = "error"
                              /\ err' = "KeyError"
                              /\ UNCHANGED groups
    /\ UNCHANGED <<readable, file, items, out, prev>>

\* Line 14.
PrintHeader ==
    /\ pc = "print_header"
    /\ out' = Append(out, HeaderText)
    /\ pc' = "sort"
    /\ UNCHANGED <<readable, file, err, fopen, fieldnames, line_num, groups, items, prev>>

\* Line 15: sorted() builds the whole list before the loop starts.
Sort ==
    /\ pc = "sort"
    /\ LET r == Sorted(groups)
       IN  IF r.ok
           THEN /\ items' = r.val
                /\ pc' = "print_line"
                /\ err' = err
           ELSE /\ items' = items
                /\ pc' = "error"
                /\ err' = "TypeError"
    /\ UNCHANGED <<readable, file, fopen, fieldnames, line_num, groups, out, prev>>

\* Lines 15-16: one turn of the printing loop.
PrintLine ==
    /\ pc = "print_line"
    /\ items # <<>>
    /\ out' = Append(out, FormatLine(Head(items)))
    /\ items' = Tail(items)
    /\ UNCHANGED <<readable, file, pc, err, fopen, fieldnames, line_num, groups, prev>>

\* The printing loop is exhausted: the script ends.
Exit ==
    /\ pc = "print_line"
    /\ items = <<>>
    /\ pc' = "done"
    /\ UNCHANGED <<readable, file, err, fopen, fieldnames, line_num, groups, items, out, prev>>

\* The script is run a second time on the same file; what the first run left
\* in its variables is whatever line 3 and the with statement make of it.
Rerun ==
    /\ pc \in {"done", "error"}
    /\ ~prev.ran
    /\ prev' = [ran |-> TRUE, pc |-> pc, err |-> err, out |-> out]
    /\ pc' = "start"
    /\ err' = ""
    /\ out' = <<>>
    /\ items' = <<>>
    /\ UNCHANGED <<readable, file, fopen, fieldnames, line_num, groups>>

Next ==
    \/ Start
    \/ Open
    \/ Iterate
    \/ PrintHeader
    \/ Sort
    \/ PrintLine
    \/ Exit
    \/ Rerun

Spec == Init /\ [][Next]_vars

\* ------------------------------------------- the file, read independently
HasHeader == readable /\ file # <<>> /\ ~file[1].bad
HeaderHasGroup == HasHeader /\ \E j \in 1..Len(file[1].fields) : file[1].fields[j] = GroupField
\* The header line names at least one column, and none of them is 'group'.
HeaderLacksGroup ==
    HasHeader /\ file[1].fields # <<>> /\ \A j \in 1..Len(file[1].fields) : file[1].fields[j] # GroupField
GroupCol == CHOOSE j \in 1..Len(file[1].fields) : file[1].fields[j] = GroupField
DataIdx == 2..Len(file)
CarriesGroup(i) == ~file[i].bad /\ Len(file[i].fields) >= GroupCol
GroupOf(i) == file[i].fields[GroupCol]
RowsWith(g) == {i \in DataIdx : CarriesGroup(i) /\ GroupOf(i) = g}
\* A row that ends before the group column, but is not a blank line.
ShortRow(i) == ~file[i].bad /\ file[i].fields # <<>> /\ Len(file[i].fields) < GroupCol
AllRowsCarryGroup == HeaderHasGroup /\ \A i \in DataIdx : CarriesGroup(i)
\* Every data line has exactly the fields of the header.
WellFormed ==
    HeaderHasGroup /\ \A i \in DataIdx : ~file[i].bad /\ Len(file[i].fields) = Len(file[1].fields)
Ended == pc \in {"done", "error"}
Reporting == pc \in {"print_header", "sort", "print_line", "done"}

\* --------------------------------------------- reading the printed lines
IsDigit(c) == c \in 48..57
CountEnd(l) == Len(l) - Len(LineSuffix)
CountStart(l) ==
    CHOOSE p \in 1..CountEnd(l) :
        /\ \A q \in p..CountEnd(l) : IsDigit(l[q])
        /\ (p > 1 => ~IsDigit(l[p - 1]))
RECURSIVE NumVal(_)
NumVal(d) == IF d = <<>> THEN 0 ELSE 10 * NumVal(SubSeq(d, 1, Len(d) - 1)) + (d[Len(d)] - 48)
ParseCount(l) == NumVal(SubSeq(l, CountStart(l), CountEnd(l)))
ParseGroup(l) == SubSeq(l, Len(LinePrefix) + 1, CountStart(l) - Len(LineSep) - 1)
GroupLineIdx == 2..Len(out)
RECURSIVE SumOver(_, _)
SumOver(S, f) ==
    IF S = {} THEN 0 ELSE LET x == CHOOSE y \in S : TRUE IN f[x] + SumOver(S \ {x}, f)
PrintedSum == SumOver(GroupLineIdx, [i \in GroupLineIdx |-> ParseCount(out[i])])
TallySum == SumOver(1..Len(groups), [i \in 1..Len(groups) |-> groups[i].v])
\* a sorts before b in lexicographic order of code points.
LexLess(a, b) ==
    \E n \in 0..Len(a) :
        /\ n <= Len(b)
        /\ \A j \in 1..n : a[j] = b[j]
        /\ \/ n = Len(a) /\ n < Len(b)
           \/ n < Len(a) /\ n < Len(b) /\ a[n + 1] < b[n + 1]

\* ------------------------------------------------------------- claims
\* C1: when every data row carries a group value, the run completes, and the
\* printed group lines are exactly one line per distinct group value of the
\* rows, each with the number of rows that bear that value.
C1_CountsPerGroup ==
    (Ended /\ AllRowsCarryGroup) =>
        /\ pc = "done"
        /\ {<<ParseGroup(out[i]), ParseCount(out[i])>> : i \in GroupLineIdx}
             = {<<GroupOf(i), Cardinality(RowsWith(GroupOf(i)))>> : i \in DataIdx}
        /\ Len(out) - 1 = Cardinality({GroupOf(i) : i \in DataIdx})

\* Rows A, B, A are reported as A: 2, B: 1.
C1_Witness ==
    /\ pc = "done"
    /\ AllRowsCarryGroup
    /\ Len(file) = 4
    /\ <<GroupOf(2), GroupOf(3), GroupOf(4)>> = <<(<<65>>), (<<66>>), (<<65>>)>>
    /\ out = <<HeaderText, FormatLine([k |-> PyStr(<<65>>), v |-> 2]),
               FormatLine([k |-> PyStr(<<66>>), v |-> 1])>>

\* C2 as stated: on a well-formed file the printed counts add up to the
\* number of data rows whose group value is not empty.
C2_SumIsNonEmptyRows ==
    (pc = "done" /\ WellFormed) =>
        PrintedSum = Cardinality({i \in DataIdx : GroupOf(i) # <<>>})

\* C2 amended: on a well-formed file the printed counts, and the tally once
\* the pass is over, add up to the number of data rows, the rows whose group
\* value is the empty string included.
C2_SumIsAllRows ==
    /\ (Reporting /\ WellFormed) => TallySum = Cardinality(DataIdx)
    /\ (pc = "done" /\ WellFormed) => PrintedSum = Cardinality(DataIdx)

C2_Witness ==
    /\ pc = "done"
    /\ WellFormed
    /\ Cardinality(DataIdx) = 3
    /\ \E i \in DataIdx : GroupOf(i) = <<>>
    /\ \E i \in DataIdx : GroupOf(i) # <<>>
    /\ PrintedSum = 3

\* C3: in a completed run the group names of the printed lines are in
\* strictly ascending lexicographic order, so none is printed twice.
C3_Ascending ==
    pc = "done" =>
        \A i, j \in GroupLineIdx :
            i < j => LexLess(ParseGroup(out[i]), ParseGroup(out[j]))

\* Rows B, AB, A arrive in descending order and are printed A, AB, B.
C3_Witness ==
    /\ pc = "done"
    /\ AllRowsCarryGroup
    /\ Len(file) = 4
    /\ <<GroupOf(2), GroupOf(3), GroupOf(4)>> = <<(<<66>>), (<<65, 66>>), (<<65>>)>>
    /\ Len(out) = 4
    /\ <<ParseGroup(out[2]), ParseGroup(out[3]), ParseGroup(out[4])>>
         = <<(<<65>>), (<<65, 66>>), (<<66>>)>>

\* C4 as stated: a run that ends in an error has printed nothing at all.
C4_NoOutputOnFailure == pc = "error" => out = <<>>

\* C5 as stated: once a row that lacks the group field has been read, the run
\* has failed with the missing-field error and the row is under no key.
C5_ShortRowFails ==
    (HeaderHasGroup /\ pc # "start" /\ \E i \in DataIdx : i <= line_num /\ ShortRow(i)) =>
        /\ pc = "error"
        /\ err = "KeyError"
        /\ \A n \in 1..Len(groups) : groups[n].k # PyNone

HasDataRow == \E i \in DataIdx : file[i].bad \/ file[i].fields # <<>>

C7_HeaderOnly ==
    (HasHeader /\ Len(file) = 1) =>
        /\ pc # "error"
        /\ Reporting => groups = <<>>
        /\ pc = "done" => out = <<HeaderText>>

C7_Witness ==
    /\ HasHeader
    /\ Len(file) = 1
    /\ file[1].fields = <<GroupField>>
    /\ pc = "done"
    /\ out = <<HeaderText>>

\* C8: a second run on the same file ends as the first did, with the same
\* output, and every run starts its pass with an empty tally.
C8_SameOutput ==
    /\ pc = "open" => groups = <<>>
    /\ (prev.ran /\ Ended) => (pc = prev.pc /\ err = prev.err /\ out = prev.out)

C8_Witness ==
    /\ prev.ran
    /\ pc = "done"
    /\ Len(prev.out) = 3
    /\ out = prev.out

\* C9: in a completed run, the rows whose group field is the empty string
\* are reported on a group line of their own, with their number.
C9_EmptyGroupCounted ==
    (pc = "done" /\ HeaderHasGroup /\ RowsWith(<<>>) # {}) =>
        \E i \in GroupLineIdx :
            out[i] = LinePrefix \o LineSep \o Digits(Cardinality(RowsWith(<<>>))) \o LineSuffix

C9_Witness ==
    /\ pc = "done"
    /\ HeaderHasGroup
    /\ Cardinality(RowsWith(<<>>)) = 2
    /\ Cardinality(RowsWith(<<65>>)) = 1
    /\ Len(out) = 3
    /\ out[2] = <<45, 32, 58, 32, 50, 32, 102, 105, 101, 108, 100, 115>>

\* C10: the file is open during the pass over the rows and at no other time:
\* it is closed while the report is printed and once the run has ended,
\* normally or by an error.
C10_FileClosed ==
    /\ (Reporting \/ Ended) => ~fopen
    /\ fopen <=> pc = "loop"

C10_Witness ==
    /\ pc = "error"
    /\ err \in {"KeyError", "csv.Error"}
    /\ line_num >= 2
    /\ ~fopen

====
